---------------------------- MODULE Spec2Model ----------------------------
(***************************************************************************)
(* Model of the agent registry (SAPRegistry), its snapshot export/import   *)
(* and the registry crawler (AgentCrawler) of BureauAgent/alm-agent.       *)
(*                                                                         *)
(* Representation                                                          *)
(*  - A JavaScript Map is a sequence of entries [k |-> key, v |-> value]   *)
(*    in insertion order (what Array.from(map.entries()) returns).         *)
(*  - generateAgentId() draws 16 random bytes, so an id is new and says    *)
(*    nothing else.  The model names the n-th id drawn for a map <<map, n>>*)
(*    and counts the ids drawn per map in nextId: ids never collide.       *)
(*  - new Date() reads the variable clock, which the environment advances  *)
(*    (Tick).  A Date object is [kind |-> "Date", t |-> n]; the ISO string *)
(*    JSON.stringify makes of it is [kind |-> "string", t |-> n]; a field  *)
(*    that was never assigned is Undefined.                                *)
(*  - successRate is the exact quotient reputation / tasksCompleted * 100, *)
(*    kept as the fraction [n |-> reputation * 100, d |-> tasksCompleted]. *)
(***************************************************************************)
EXTENDS Integers, Sequences, FiniteSets, TLC

VARIABLES
    agents,     \* registry.agents : Map<string, AgentProfile>
    skills,     \* registry.skills : Map<string, AgentSkill>
    tasks,      \* registry.tasks  : Map<string, AgentTask>
    nextId,     \* ids generateAgentId() has handed out, per map
    clock,      \* the wall clock read by new Date()
    crawler,    \* AgentCrawler.status : CrawlerStatus
    timers,     \* AgentCrawler.timer and the interval timers that are set
    cycles,     \* the runCycle() calls, each at one of its awaits or done
    initialized,    \* SAPProtocol.initialized
    localProfile,   \* the profile manager's local profile (its id), if any
    skillHandlers,  \* SkillManager.skillHandlers : the ids that have a handler
    pending,    \* the facade's async calls in flight, each at one of its awaits
    thrown,     \* what the last executeSkill call threw, if anything
    returned,   \* what the last executeSkill call returned, if anything
    scored,     \* a call of computeGitHubScore / computeDexScore: input, result
    retry,      \* a call of retryWithBackoff: its arguments, locals and outcome
    lastStats,  \* what the last getStats() call returned, if any
    calls       \* steps taken so far (bounds a run; no program state)

registryVars == <<agents, skills, tasks, nextId>>
crawlerVars == <<crawler, timers, cycles>>
facadeVars == <<initialized, localProfile, skillHandlers, pending, thrown, returned>>
utilVars == <<scored, retry, lastStats>>
vars == <<agents, skills, tasks, nextId, clock, crawler, timers, cycles,
          initialized, localProfile, skillHandlers, pending, thrown,
          returned, scored, retry, lastStats, calls>>

---------------------------------------------------------------------------
(* Bounds of the model *)

MaxCalls == 5

(* Program constants *)

MaxReputation == 100
MinReputation == 0
SuccessDelta == 1
FailureDelta == 2
DefaultSuccessRate == 100

---------------------------------------------------------------------------
(* Values *)

Undefined == [kind |-> "undefined", t |-> 0]
Date(t) == [kind |-> "Date", t |-> t]
Rat(n, d) == [n |-> n, d |-> d]

(* What an awaited call ends in: a value, undefined included, or an
   exception *)
Resolved(value) == [kind |-> "value", v |-> value]
Rejected(error) == [kind |-> "throw", v |-> error]

Min(a, b) == IF a <= b THEN a ELSE b
Max(a, b) == IF a >= b THEN a ELSE b

(* Map<K, V> as a sequence of entries in insertion order *)
EmptyMap == << >>
MapHas(m, k) == \E i \in 1..Len(m) : m[i].k = k
MapIdx(m, k) == CHOOSE i \in 1..Len(m) : m[i].k = k
MapGet(m, k) == m[MapIdx(m, k)].v
MapSet(m, k, v) ==
    IF MapHas(m, k)
    THEN [m EXCEPT ![MapIdx(m, k)] = [k |-> k, v |-> v]]
    ELSE Append(m, [k |-> k, v |-> v])
MapKeys(m) == {m[i].k : i \in 1..Len(m)}

(* Status values of AgentTask *)
TaskStatuses == {"pending", "running", "completed", "failed"}
Terminal == {"completed", "failed"}

(* The ids a caller may pass for a map: the keys of the map and an id
   generateAgentId() never hands out (an id of another map is as unknown) *)
IdInputs(m) == MapKeys(m) \cup {<<"unknown", 0>>}

(* A run is a bounded number of steps (calls, returns of awaited fetches,
   clock ticks): the entities the registry holds and the counters
   tasksCompleted, usageCount and totalCrawled are bounded by that alone. *)
StepsUpTo(bound) ==
    calls < bound /\ calls' = calls + 1 /\ UNCHANGED utilVars

(* A step on the registry or the crawler alone: the facade and the skill
   manager are not involved *)
Step == StepsUpTo(MaxCalls) /\ UNCHANGED facadeVars

---------------------------------------------------------------------------
(* SAPRegistry *)

generateAgentId(map) == <<map, nextId[map] + 1>>
IdDrawn(map) == [nextId EXCEPT ![map] = @ + 1]

(* the spread of the caller's profile alone, nothing forced after it *)
RegisterAgentProfileKeepsSupplied(profile, id) ==
    [profile EXCEPT
        !.id = id,
        !.createdAt = Date(clock),
        !.lastActive = Date(clock)]

(* registerAgent: the spread of the caller's profile is followed by the
   literal reputation, tasksCompleted and successRate, which win. *)
RegisterAgentProfile(profile, id) ==
    [profile EXCEPT
        !.id = id,
        !.createdAt = Date(clock),
        !.lastActive = Date(clock),
        !.reputation = 0,
        !.tasksCompleted = 0,
        !.successRate = Rat(DefaultSuccessRate, 1)]

RegisterAgent(profile) ==
    /\ agents' = MapSet(agents, generateAgentId("agent"),
                        RegisterAgentProfile(profile, generateAgentId("agent")))
    /\ nextId' = IdDrawn("agent")
    /\ UNCHANGED <<skills, tasks, clock, crawlerVars>>

(* registerExternalAgent: the caller's reputation and stats are kept. *)
RegisterExternalAgentProfile(profile, id) ==
    [profile EXCEPT
        !.id = id,
        !.createdAt = Date(clock),
        !.lastActive = Date(clock)]

RegisterExternalAgent(profile) ==
    /\ agents' = MapSet(agents, generateAgentId("agent"),
                        RegisterExternalAgentProfile(profile, generateAgentId("agent")))
    /\ nextId' = IdDrawn("agent")
    /\ UNCHANGED <<skills, tasks, clock, crawlerVars>>

(* reputation + 1 without Math.min(100, ...) *)
NewReputationNoCeiling(reputation, taskSuccess) ==
    IF taskSuccess
    THEN reputation + SuccessDelta
    ELSE Max(MinReputation, reputation - FailureDelta)

(* updateReputation: the new reputation *)
NewReputation(reputation, taskSuccess) ==
    IF taskSuccess
    THEN Min(MaxReputation, reputation + SuccessDelta)
    ELSE Max(MinReputation, reputation - FailureDelta)

UpdatedAgent(agent, taskSuccess) ==
    LET completed == agent.tasksCompleted + 1
        reputation == NewReputation(agent.reputation, taskSuccess)
    IN  [agent EXCEPT
            !.tasksCompleted = completed,
            !.reputation = reputation,
            !.successRate = Rat(reputation * 100, completed),
            !.lastActive = Date(clock)]

UpdateReputationMap(m, agentId, taskSuccess) ==
    IF ~MapHas(m, agentId)
    THEN m
    ELSE MapSet(m, agentId, UpdatedAgent(MapGet(m, agentId), taskSuccess))

UpdateReputation(agentId, taskSuccess) ==
    /\ agents' = UpdateReputationMap(agents, agentId, taskSuccess)
    /\ UNCHANGED <<skills, tasks, nextId, clock, crawlerVars>>

(* registerSkill *)
RegisterSkillRecord(skill, id) ==
    [skill EXCEPT !.id = id, !.usageCount = 0, !.rating = 0]

RegisterSkill(skill) ==
    /\ skills' = MapSet(skills, generateAgentId("skill"),
                        RegisterSkillRecord(skill, generateAgentId("skill")))
    /\ nextId' = IdDrawn("skill")
    /\ UNCHANGED <<agents, tasks, clock, crawlerVars>>

(* createTask *)
NewTask(id, agentId, skillId) ==
    [id |-> id, agentId |-> agentId, skillId |-> skillId,
     status |-> "pending", createdAt |-> Date(clock),
     startedAt |-> Undefined, completedAt |-> Undefined,
     result |-> "undefined", error |-> "undefined"]

CreateTask(agentId, skillId) ==
    /\ tasks' = MapSet(tasks, generateAgentId("task"),
                       NewTask(generateAgentId("task"), agentId, skillId))
    /\ nextId' = IdDrawn("task")
    /\ UNCHANGED <<agents, skills, clock, crawlerVars>>

(* updateTaskStatus *)
UpdatedTask(task, status, result, error) ==
    LET t1 == [task EXCEPT !.status = status]
        t2 == IF status = "running" /\ t1.startedAt = Undefined
              THEN [t1 EXCEPT !.startedAt = Date(clock)]
              ELSE t1
    IN  IF status \in Terminal
        THEN [t2 EXCEPT !.completedAt = Date(clock),
                        !.result = result,
                        !.error = error]
        ELSE t2

UsedSkillNotCounted(skill) == skill

UsedSkill(skill) == [skill EXCEPT !.usageCount = @ + 1]

UpdateSkillUsageMap(m, skillId) ==
    IF MapHas(m, skillId)
    THEN MapSet(m, skillId, UsedSkill(MapGet(m, skillId)))
    ELSE m

(* updateTaskStatus that gives up the bookkeeping once the task's agent is
   not found, the skill's count included *)
UpdateTaskStatusStopsAtMissingAgent(taskId, status, result, error) ==
    /\ IF ~MapHas(tasks, taskId)
       THEN UNCHANGED <<agents, skills, tasks>>
       ELSE LET task == MapGet(tasks, taskId)
            IN  /\ tasks' = MapSet(tasks, taskId,
                                   UpdatedTask(task, status, result, error))
                /\ IF status \in Terminal /\ MapHas(agents, task.agentId)
                   THEN /\ agents' = UpdateReputationMap(agents, task.agentId,
                                                         status = "completed")
                        /\ skills' = UpdateSkillUsageMap(skills, task.skillId)
                   ELSE UNCHANGED <<agents, skills>>
    /\ UNCHANGED <<nextId, clock, crawlerVars>>

UpdateTaskStatus(taskId, status, result, error) ==
    /\ IF ~MapHas(tasks, taskId)
       THEN UNCHANGED <<agents, skills, tasks>>
       ELSE LET task == MapGet(tasks, taskId)
            IN  /\ tasks' = MapSet(tasks, taskId,
                                   UpdatedTask(task, status, result, error))
                /\ IF status \in Terminal
                   THEN /\ agents' = UpdateReputationMap(agents, task.agentId,
                                                         status = "completed")
                        /\ skills' = UpdateSkillUsageMap(skills, task.skillId)
                   ELSE UNCHANGED <<agents, skills>>
    /\ UNCHANGED <<nextId, clock, crawlerVars>>

(* The environment: time passes. *)
Tick ==
    /\ clock' = clock + 1
    /\ UNCHANGED <<registryVars, crawlerVars>>

---------------------------------------------------------------------------
(* monitor/github.ts and monitor/dexscreener.ts: the scores *)

(* GitHubStats, with lastPush kept as the days between it and Date.now() *)
GitHubStats(stars, commits30d, daysSincePush) ==
    [kind |-> "stats", stars |-> stars, forks |-> 0,
     commits30d |-> commits30d, daysSincePush |-> daysSincePush,
     latestRelease |-> "v1"]

computeGitHubScore(stats) ==
    LET starScore ==
            IF stats.stars >= 10000 THEN 6
            ELSE IF stats.stars >= 5000 THEN 5
            ELSE IF stats.stars >= 2000 THEN 4
            ELSE IF stats.stars >= 500 THEN 2
            ELSE IF stats.stars >= 100 THEN 1
            ELSE 0
        commitScore ==
            IF stats.commits30d >= 20 THEN 2
            ELSE IF stats.commits30d >= 5 THEN 1
            ELSE 0
        pushScore ==
            IF stats.daysSincePush <= 7 THEN 2
            ELSE IF stats.daysSincePush <= 30 THEN 1
            ELSE 0
    IN  starScore + commitScore + pushScore

(* DexTokenData *)
DexTokenData(volume24h, change24h) ==
    [kind |-> "token", symbol |-> "TKN", priceUsd |-> 1,
     change24h |-> change24h, volume24h |-> volume24h]

computeDexScore(token) ==
    LET volumeScore ==
            IF token.volume24h >= 10000000 THEN 2
            ELSE IF token.volume24h >= 1000000 THEN 1
            ELSE IF token.volume24h < 10000 THEN -1
            ELSE 0
        changeScore ==
            IF token.change24h <= -30 THEN -2
            ELSE IF token.change24h <= -15 THEN -1
            ELSE IF token.change24h >= 20 THEN 1
            ELSE 0
    IN  volumeScore + changeScore

(* The names AGENT_TOKEN_MAP has a mint for *)
AGENT_TOKEN_MAP ==
    {"BonkBot", "Drift Keeper Bot", "Jito MEV Bot", "Eliza (ai16z)",
     "Solana Agent Kit"}

(* What a request ends in: data, no usable data (null), or an exception *)
Null == [kind |-> "null"]
Thrown == [kind |-> "throw"]

(* fetchGitHubStats: its own catch turns a failed request into null *)
fetchGitHubStats(response) ==
    IF response.kind = "throw" THEN Null ELSE response

(* fetchTokenData: no pair gives null, and its own catch turns a failed
   request into null *)
fetchTokenData(response) ==
    IF response.kind = "throw" THEN Null ELSE response

(* fetchAgentTokenData: null without a request when the name has no mint *)
fetchAgentTokenData(agentName, response) ==
    IF agentName \notin AGENT_TOKEN_MAP THEN Null
    ELSE fetchTokenData(response)

---------------------------------------------------------------------------
(* monitor/crawler.ts: AgentCrawler *)

ISO(t) == [kind |-> "string", t |-> t]

InitialStatus ==
    [running |-> FALSE, lastRun |-> Undefined, totalCrawled |-> 0,
     lastResults |-> << >>]

(* this.timer (0: never assigned), the ids of the interval timers that are
   set, and how many setInterval has made *)
NoTimers == [field |-> 0, active |-> {}, made |-> 0]

NoStats == [kind |-> "undefined"]

(* The locals of one loop iteration, before its first await *)
EnterAgent(c, i) ==
    [c EXCEPT
        !.i = i,
        !.sources = << >>,
        !.liveScore = 0,
        !.github = NoStats,
        !.token = NoStats,
        !.pc = IF c.snapshot[i].github THEN "github" ELSE "dex"]

(* The AgentLiveData written back for the iteration *)
LiveDataOf(c, liveScore) ==
    [kind |-> "object", lastCrawledAt |-> ISO(c.now),
     crawlSource |-> c.sources, github |-> c.github, token |-> c.token,
     liveScore |-> liveScore]

(* result.liveScore without Math.max(-10, Math.min(10, ...)) *)
ClampLiveScoreUnclamped(score) == score

ClampLiveScore(score) == Max(-10, Min(10, score))

CrawlResultOf(c, liveScore) ==
    [agentId |-> c.snapshot[c.i].id, agentName |-> c.snapshot[c.i].name,
     sources |-> c.sources, liveScore |-> liveScore, updatedAt |-> ISO(c.now)]

(* The write-back with lastActive set to the time of the write as well *)
WriteLiveDataTouchesLastActive(m, agentId, liveData) ==
    IF MapHas(m, agentId)
    THEN MapSet(m, agentId, [MapGet(m, agentId) EXCEPT
                                !.liveData = liveData,
                                !.lastActive = Date(clock + 1)])
    ELSE m

(* profile.liveData = liveData, when getAgent(agent.id) finds the profile *)
WriteLiveData(m, agentId, liveData) ==
    IF MapHas(m, agentId)
    THEN MapSet(m, agentId, [MapGet(m, agentId) EXCEPT !.liveData = liveData])
    ELSE m

(* The lines after the loop, with totalCrawled assigned and not added to *)
FinishedStatusOverwritesTotal(st, c) ==
    [st EXCEPT
        !.lastRun = ISO(c.now),
        !.totalCrawled = Len(c.results),
        !.lastResults = c.results]

(* The lines after the loop *)
FinishedStatus(st, c) ==
    [st EXCEPT
        !.lastRun = ISO(c.now),
        !.totalCrawled = @ + Len(c.results),
        !.lastResults = c.results]

(* runCycle() up to its first await: the snapshot of listAgents(), and the
   lines after the loop at once when there is no agent to walk *)
NewCycle ==
    [now |-> clock,
     snapshot |-> [i \in 1..Len(agents) |->
                     [id |-> agents[i].v.id, name |-> agents[i].v.name,
                      github |-> agents[i].v.github]],
     i |-> 0, pc |-> "start", sources |-> << >>, liveScore |-> 0,
     github |-> NoStats, token |-> NoStats, results |-> << >>]

BeginCycle(st) ==
    IF Len(agents) = 0
    THEN /\ crawler' = FinishedStatus(st, NewCycle)
         /\ cycles' = Append(cycles, [NewCycle EXCEPT !.pc = "done"])
    ELSE /\ crawler' = st
         /\ cycles' = Append(cycles, EnterAgent(NewCycle, 1))

(* The web route's manual trigger: crawler.runCycle() *)
RunCycle ==
    /\ BeginCycle(crawler)
    /\ UNCHANGED <<registryVars, clock, timers>>

(* await fetchGitHubStats(agent.github) returns: the try block, or the
   catch, which only logs.  The cycle goes on to await sleep(300) and then
   fetchAgentTokenData(agent.name): it touches nothing between the two, so
   the two awaits are the one place "dex". *)
AfterGitHubFailureEndsCycle(c, fetched) ==
    IF fetched.kind = "stats"
    THEN [c EXCEPT
            !.github = fetched,
            !.sources = Append(@, "github"),
            !.liveScore = @ + computeGitHubScore(fetched),
            !.pc = "dex"]
    ELSE [c EXCEPT !.pc = "done"]

AfterGitHub(c, fetched) ==
    IF fetched.kind = "stats"
    THEN [c EXCEPT
            !.github = fetched,
            !.sources = Append(@, "github"),
            !.liveScore = @ + computeGitHubScore(fetched),
            !.pc = "dex"]
    ELSE [c EXCEPT !.pc = "dex"]

GitHubReturns(k, response) ==
    /\ k \in 1..Len(cycles)
    /\ cycles[k].pc = "github"
    /\ cycles' = [cycles EXCEPT
                    ![k] = AfterGitHub(@, fetchGitHubStats(response))]
    /\ UNCHANGED <<registryVars, clock, crawler, timers>>

(* await fetchAgentTokenData(agent.name) returns: the try block, or the
   catch, which only logs *)
AfterDex(c, fetched) ==
    IF fetched.kind = "token"
    THEN [c EXCEPT
            !.token = fetched,
            !.sources = Append(@, "dexscreener"),
            !.liveScore = @ + computeDexScore(fetched)]
    ELSE c

(* results.push(result), when a source contributed *)
PushResult(c, liveScore) ==
    IF Len(c.sources) > 0
    THEN [c EXCEPT !.results = Append(@, CrawlResultOf(c, liveScore))]
    ELSE c

(* The rest of the iteration after the token fetch, then the next iteration
   up to its first await, or the lines after the loop.  A finished cycle
   stays in cycles at "done" (history only). *)
DexReturns(k, response) ==
    /\ k \in 1..Len(cycles)
    /\ cycles[k].pc = "dex"
    /\ LET c0 == cycles[k]
           fetched == fetchAgentTokenData(c0.snapshot[c0.i].name, response)
           c1 == AfterDex(c0, fetched)
           liveScore == ClampLiveScore(c1.liveScore)
           c2 == PushResult(c1, liveScore)
       IN  /\ agents' = WriteLiveData(agents, c0.snapshot[c0.i].id,
                                      LiveDataOf(c1, liveScore))
           /\ IF c2.i < Len(c2.snapshot)
              THEN /\ cycles' = [cycles EXCEPT ![k] = EnterAgent(c2, c2.i + 1)]
                   /\ UNCHANGED crawler
              ELSE /\ cycles' = [cycles EXCEPT ![k] = [c2 EXCEPT !.pc = "done"]]
                   /\ crawler' = FinishedStatus(crawler, c2)
    /\ UNCHANGED <<skills, tasks, nextId, clock, timers>>

(* start() without the test of status.running *)
StartUnguarded ==
    /\ BeginCycle([crawler EXCEPT !.running = TRUE])
    /\ timers' = [field |-> timers.made + 1,
                  active |-> timers.active \cup {timers.made + 1},
                  made |-> timers.made + 1]
    /\ UNCHANGED <<registryVars, clock>>

(* start(): the first cycle at once, then the interval timer *)
Start ==
    IF crawler.running
    THEN UNCHANGED <<registryVars, clock, crawlerVars>>
    ELSE /\ BeginCycle([crawler EXCEPT !.running = TRUE])
         /\ timers' = [field |-> timers.made + 1,
                       active |-> timers.active \cup {timers.made + 1},
                       made |-> timers.made + 1]
         /\ UNCHANGED <<registryVars, clock>>

(* The interval timer fires: runCycle() *)
TimerFires ==
    /\ timers.active # {}
    /\ BeginCycle(crawler)
    /\ UNCHANGED <<registryVars, clock, timers>>

(* stop() without clearInterval *)
StopKeepsTimer ==
    /\ crawler' = [crawler EXCEPT !.running = FALSE]
    /\ UNCHANGED <<registryVars, clock, cycles, timers>>

(* stop() *)
Stop ==
    /\ timers' = [timers EXCEPT !.active = @ \ {timers.field}]
    /\ crawler' = [crawler EXCEPT !.running = FALSE]
    /\ UNCHANGED <<registryVars, clock, cycles>>

---------------------------------------------------------------------------
(* SAPRegistry.getStats *)

(* Array.from(map.values()) *)
Values(m) == [i \in 1..Len(m) |-> m[i].v]

listAgents == Values(agents)
listSkills == Values(skills)

(* agents.reduce((sum, a) => sum + a.reputation, 0) *)
RECURSIVE SumReputation(_, _)
SumReputation(list, n) ==
    IF n = 0 THEN 0 ELSE SumReputation(list, n - 1) + list[n].reputation

(* A division of two numbers: 0 / 0 is NaN and n / 0 is Infinity *)
Divide(n, d) ==
    IF d # 0 THEN [kind |-> "number", n |-> n, d |-> d]
    ELSE IF n = 0 THEN [kind |-> "NaN", n |-> 0, d |-> 0]
    ELSE [kind |-> "Infinity", n |-> n, d |-> 0]

(* agents.length without || 1 *)
LengthOrOneNoFallback(length) == length

(* agents.length || 1 *)
LengthOrOne(length) == IF length = 0 THEN 1 ELSE length

CountStatus(list, status) ==
    Cardinality({i \in 1..Len(list) : list[i].status = status})

(* agents.sort((a, b) => b.reputation - a.reputation): the sort is stable, so
   an agent goes behind those of the same reputation that come before it.
   Here with the agent put in front of them. *)
InsertByReputationBeforeTies(sorted, agent) ==
    LET n == Cardinality({i \in 1..Len(sorted) :
                            sorted[i].reputation > agent.reputation})
    IN  SubSeq(sorted, 1, n) \o <<agent>> \o SubSeq(sorted, n + 1, Len(sorted))

InsertByReputation(sorted, agent) ==
    LET n == Cardinality({i \in 1..Len(sorted) :
                            sorted[i].reputation >= agent.reputation})
    IN  SubSeq(sorted, 1, n) \o <<agent>> \o SubSeq(sorted, n + 1, Len(sorted))

RECURSIVE SortByReputation(_, _)
SortByReputation(list, n) ==
    IF n = 0 THEN << >>
    ELSE InsertByReputation(SortByReputation(list, n - 1), list[n])

(* .slice(0, 5) *)
TopCount == 5

(* .map(a => ({ id: a.id, name: a.name, reputation: a.reputation })) *)
TopAgentOf(agent) ==
    [id |-> agent.id, name |-> agent.name, reputation |-> agent.reputation]

TopAgents(list) ==
    [i \in 1..Min(TopCount, Len(list)) |-> TopAgentOf(list[i])]

getStats ==
    [totalAgents |-> Len(listAgents),
     totalSkills |-> Len(listSkills),
     totalTasks |-> Len(Values(tasks)),
     activeTasks |-> CountStatus(Values(tasks), "running"),
     completedTasks |-> CountStatus(Values(tasks), "completed"),
     averageReputation |->
        Divide(SumReputation(listAgents, Len(listAgents)),
               LengthOrOne(Len(listAgents))),
     topAgents |->
        TopAgents(SortByReputation(listAgents, Len(listAgents)))]

(* A call of getStats(): listAgents() is a new array (Array.from), and it is
   that array the sort reorders *)
GetStats ==
    /\ lastStats' = getStats
    /\ UNCHANGED <<registryVars, clock, crawlerVars, facadeVars, scored,
                   retry>>

---------------------------------------------------------------------------
(* SAPRegistry.exportData and importData *)

(* JSON.stringify of a field: a Date becomes its ISO string (Date.toJSON);
   strings and numbers stay; an undefined field is left out, and reads as
   undefined again after JSON.parse. *)
ToJSON(value) == IF value.kind = "Date" THEN ISO(value.t) ELSE value

AgentToJSON(agent) ==
    [agent EXCEPT !.createdAt = ToJSON(@), !.lastActive = ToJSON(@)]

TaskToJSON(task) ==
    [task EXCEPT !.createdAt = ToJSON(@), !.startedAt = ToJSON(@),
                 !.completedAt = ToJSON(@)]

(* Array.from(map.entries()), as JSON.stringify writes it: e is the array of
   [key, value] pairs with each value already written *)
EntriesToJSON(e) == [kind |-> "entries", e |-> e]

SkillToJSON(skill) == skill

(* A text is kept as what JSON.parse makes of it: an exception, null, or an
   object whose agents, skills and tasks are each an array of entries,
   missing, or a value that cannot be iterated (a number). *)
Unparseable == [kind |-> "unparseable"]
ParsesToNull == [kind |-> "null"]
Missing == [kind |-> "undefined"]
NotIterable == [kind |-> "number"]
Document(a, s, t) == [kind |-> "object", agents |-> a, skills |-> s, tasks |-> t]

exportData ==
    Document(
        EntriesToJSON([i \in 1..Len(agents) |->
            [k |-> agents[i].k, v |-> AgentToJSON(agents[i].v)]]),
        EntriesToJSON([i \in 1..Len(skills) |->
            [k |-> skills[i].k, v |-> SkillToJSON(skills[i].v)]]),
        EntriesToJSON([i \in 1..Len(tasks) |->
            [k |-> tasks[i].k, v |-> TaskToJSON(tasks[i].v)]]))

(* new Map(iterable): the entries set one after the other; no entries when
   the argument is undefined; a TypeError when it cannot be iterated *)
RECURSIVE MapOfEntries(_, _)
MapOfEntries(e, n) ==
    IF n = 0 THEN EmptyMap
    ELSE MapSet(MapOfEntries(e, n - 1), e[n].k, e[n].v)

NewMapThrows(field) == field.kind \notin {"entries", "undefined"}

NewMap(field) ==
    IF field.kind = "entries" THEN MapOfEntries(field.e, Len(field.e))
    ELSE EmptyMap

(* importData: the three maps are assigned one after the other inside the
   try block; the catch logs and returns. *)
ImportData(data) ==
    /\ IF data.kind # "object"
       THEN UNCHANGED <<agents, skills, tasks>>
       ELSE IF NewMapThrows(data.agents)
       THEN UNCHANGED <<agents, skills, tasks>>
       ELSE /\ agents' = NewMap(data.agents)
            /\ IF NewMapThrows(data.skills)
               THEN UNCHANGED <<skills, tasks>>
               ELSE /\ skills' = NewMap(data.skills)
                    /\ IF NewMapThrows(data.tasks)
                       THEN UNCHANGED tasks
                       ELSE tasks' = NewMap(data.tasks)
    /\ UNCHANGED <<nextId, clock, crawlerVars>>

---------------------------------------------------------------------------
(* Inputs *)

NoLiveData == [kind |-> "undefined"]

(* getProfile() before the local profile is registered *)
NoProfile == <<"none", 0>>

Profile(name, github, reputation, tasksCompleted, successRate) ==
    [id |-> <<"unknown", 0>>, name |-> name, github |-> github,
     reputation |-> reputation, tasksCompleted |-> tasksCompleted,
     successRate |-> successRate,
     createdAt |-> Undefined, lastActive |-> Undefined,
     liveData |-> NoLiveData]

(* A skill as its registration is handed it: its name and its parameters *)
SkillParameter(name, required) == [name |-> name, required |-> required]

SkillData(name, parameters) ==
    [id |-> <<"unknown", 0>>, name |-> name, usageCount |-> 0, rating |-> 0,
     parameters |-> parameters]

SkillInput(name) == SkillData(name, << >>)

(* Registration inputs: a fresh agent, one at each end of the reputation
   range, and one with seeded statistics *)
RegistryProfiles ==
    { Profile("AgentX", FALSE, 0, 0, Rat(100, 1)),
      Profile("AgentX", FALSE, 100, 0, Rat(100, 1)),
      Profile("AgentX", FALSE, 99, 1, Rat(974, 10)) }

(* (result, error) as recordTask passes them *)
OutcomeInputs == {<<"result", "undefined">>, <<"undefined", "Command failed">>}

---------------------------------------------------------------------------
(* The registry under any sequence of calls *)

(* No call has returned *)
NoResult == [kind |-> "undefined"]

(* No score has been computed *)
Number(n) == [kind |-> "number", n |-> n]
Unscored == [input |-> NoResult, score |-> NoResult]

(* The registry, the crawler and the facade as their constructors leave them *)
Constructed ==
    /\ agents = EmptyMap
    /\ skills = EmptyMap
    /\ tasks = EmptyMap
    /\ nextId = [map \in {"agent", "skill", "task"} |-> 0]
    /\ clock = 0
    /\ crawler = InitialStatus
    /\ timers = NoTimers
    /\ cycles = << >>
    /\ initialized = FALSE
    /\ localProfile = NoProfile
    /\ skillHandlers = {}
    /\ pending = << >>
    /\ thrown = "nothing"
    /\ returned = "nothing"
    /\ calls = 0

(* retryWithBackoff has not been called *)
NotRetrying ==
    [pc |-> "idle", maxRetries |-> 0, baseDelay |-> 0, attempt |-> 0,
     invoked |-> 0, waits |-> << >>, lastError |-> "undefined",
     outcome |-> NoResult]

Init ==
    Constructed /\ scored = Unscored /\ retry = NotRetrying
        /\ lastStats = NoResult

Next ==
    \/ \E p \in RegistryProfiles : Step /\ RegisterAgent(p)
    \/ \E p \in RegistryProfiles : Step /\ RegisterExternalAgent(p)
    \/ \E a \in IdInputs(agents), b \in BOOLEAN :
          Step /\ UpdateReputation(a, b)
    \/ Step /\ RegisterSkill(SkillInput("Balance Checker"))
    \/ \E a \in IdInputs(agents), s \in IdInputs(skills) :
          Step /\ CreateTask(a, s)
    \/ \E t \in IdInputs(tasks), st \in TaskStatuses, o \in OutcomeInputs :
          Step /\ UpdateTaskStatus(t, st, o[1], o[2])
    \/ Step /\ Tick

Spec == Init /\ [][Next]_vars

---------------------------------------------------------------------------
(* Registration through the two entry points of the registry, each handed
   profiles that carry a reputation and statistics of their own *)

SuppliedProfiles ==
    { Profile("Supplied", FALSE, 100, 0, Rat(100, 1)),
      Profile("Supplied", FALSE, 99, 1, Rat(974, 10)),
      Profile("Supplied", TRUE, 50, 10, Rat(90, 1)) }

ExternalProfiles ==
    { Profile("Seeded", FALSE, 0, 0, Rat(100, 1)),
      Profile("Seeded", FALSE, 99, 1, Rat(974, 10)),
      Profile("Seeded", TRUE, 78, 0, Rat(965, 10)) }

RegistrationNext ==
    \/ \E p \in SuppliedProfiles : Step /\ RegisterAgent(p)
    \/ \E p \in ExternalProfiles : Step /\ RegisterExternalAgent(p)
    \/ \E a \in IdInputs(agents), b \in BOOLEAN :
          Step /\ UpdateReputation(a, b)
    \/ Step /\ Tick

SpecRegistration == Init /\ [][RegistrationNext]_vars

---------------------------------------------------------------------------
(* The two score functions of the crawler's sources, each applied to an
   input taken from both sides of every threshold it compares with *)

ScoreInputs ==
    { GitHubStats(s, c, d) :
        s \in {0, 99, 100, 499, 500, 1999, 2000, 4999, 5000, 9999, 10000},
        c \in {0, 4, 5, 19, 20},
        d \in {0, 7, 8, 30, 31} }
    \cup { DexTokenData(v, c) :
             v \in {0, 9999, 10000, 999999, 1000000, 9999999, 10000000},
             c \in {-31, -30, -29, -16, -15, -14, 0, 19, 20} }

ScoreInit ==
    /\ Constructed
    /\ scored \in { [input |-> i, score |-> NoResult] : i \in ScoreInputs }
    /\ retry = NotRetrying
    /\ lastStats = NoResult

ComputeGitHubScore ==
    /\ scored.input.kind = "stats"
    /\ scored.score = NoResult
    /\ scored' = [scored EXCEPT !.score = Number(computeGitHubScore(scored.input))]
    /\ UNCHANGED <<registryVars, clock, crawlerVars, facadeVars, retry, lastStats,
                   calls>>

ComputeDexScore ==
    /\ scored.input.kind = "token"
    /\ scored.score = NoResult
    /\ scored' = [scored EXCEPT !.score = Number(computeDexScore(scored.input))]
    /\ UNCHANGED <<registryVars, clock, crawlerVars, facadeVars, retry, lastStats,
                   calls>>

SpecScores == ScoreInit /\ [][ComputeGitHubScore \/ ComputeDexScore]_vars

---------------------------------------------------------------------------
(* utils/helpers.ts: retryWithBackoff *)

RECURSIVE Pow2(_)
Pow2(n) == IF n = 0 THEN 1 ELSE 2 * Pow2(n - 1)

(* lastError || new Error('...'): undefined, null, 0 and the like are falsy *)
Truthy(value) == value \notin {"undefined", "null", "0"}
Exhausted == "Error: all attempts exhausted"

(* The loop test, and what follows it: the next await fn(), or the throw
   after the loop *)
NextAttempt(r) ==
    IF r.attempt < r.maxRetries
    THEN [r EXCEPT !.pc = "calling", !.invoked = @ + 1]
    ELSE [r EXCEPT
            !.pc = "thrown",
            !.outcome = Rejected(IF Truthy(r.lastError) THEN r.lastError
                                 ELSE Exhausted)]

(* The catch block with the delay before every next turn of the loop, the
   one that ends it included *)
AfterFailureAlwaysWaits(r, error) ==
    [r EXCEPT
        !.lastError = error,
        !.pc = "waiting",
        !.waits = Append(@, r.baseDelay * Pow2(r.attempt))]

(* The catch block: the delay when another attempt is left, and else
   attempt++ and the loop test *)
AfterFailure(r, error) ==
    IF r.attempt < r.maxRetries - 1
    THEN [r EXCEPT
            !.lastError = error,
            !.pc = "waiting",
            !.waits = Append(@, r.baseDelay * Pow2(r.attempt))]
    ELSE NextAttempt([r EXCEPT !.lastError = error, !.attempt = @ + 1])

RetryFrame ==
    UNCHANGED <<registryVars, clock, crawlerVars, facadeVars, scored,
                lastStats, calls>>

(* retryWithBackoff(fn, maxRetries, baseDelay) is called: up to its first
   await, or to its throw *)
RetryWithBackoff ==
    /\ retry.pc = "start"
    /\ retry' = NextAttempt(retry)
    /\ RetryFrame

(* await fn() returns or throws *)
FnReturns(outcome) ==
    /\ retry.pc = "calling"
    /\ retry' = IF outcome.kind = "value"
                THEN [retry EXCEPT !.pc = "returned", !.outcome = outcome]
                ELSE AfterFailure(retry, outcome.v)
    /\ RetryFrame

(* await delay(delayTime) is over: attempt++ and the loop test *)
DelayElapses ==
    /\ retry.pc = "waiting"
    /\ retry' = NextAttempt([retry EXCEPT !.attempt = @ + 1])
    /\ RetryFrame

MaxRetriesGiven == 3

(* fn returns a value or rejects, with an Error or with a falsy value *)
FnOutcomes ==
    { Resolved("data"), Rejected("Error: timeout"), Rejected("Error: 500"),
      Rejected("undefined") }

RetryInit ==
    /\ Constructed
    /\ scored = Unscored
    /\ lastStats = NoResult
    /\ retry \in { [NotRetrying EXCEPT
                        !.pc = "start", !.maxRetries = m, !.baseDelay = d] :
                    m \in 0..MaxRetriesGiven, d \in {1, 500, 1000} }

RetryNext ==
    \/ RetryWithBackoff
    \/ \E o \in FnOutcomes : FnReturns(o)
    \/ DelayElapses

(* fn comes to an end whenever it is called, and a timer that is set fires *)
SpecRetry == RetryInit /\ [][RetryNext]_vars /\ WF_vars(RetryNext)

---------------------------------------------------------------------------
(* The statistics of a registry of up to seven agents, some of the same
   reputation *)

MaxStatsCalls == 7

StatsProfiles ==
    { Profile("AgentX", FALSE, 50, 0, Rat(100, 1)),
      Profile("AgentX", FALSE, 51, 0, Rat(100, 1)) }

StatsNext ==
    \/ \E p \in StatsProfiles :
          StepsUpTo(MaxStatsCalls) /\ UNCHANGED facadeVars
              /\ RegisterExternalAgent(p)
    \/ \E a \in MapKeys(agents) :
          StepsUpTo(MaxStatsCalls) /\ UNCHANGED facadeVars
              /\ UpdateReputation(a, TRUE)
    \/ calls < MaxStatsCalls /\ calls' = calls + 1 /\ GetStats

SpecStats == Init /\ [][StatsNext]_vars

---------------------------------------------------------------------------
(* The crawler over a registry that agents are registered in through the
   facade (reputation 0, tasksCompleted 0, successRate 100) *)

MaxCrawlSteps == 7

CrawlStep == StepsUpTo(MaxCrawlSteps) /\ UNCHANGED facadeVars

CrawlProfiles ==
    { Profile(name, github, 0, 0, Rat(100, 1)) :
        name \in {"BonkBot", "AgentX"}, github \in BOOLEAN }

(* Null: the link names no repo; Thrown: a request failed *)
GitHubResponses ==
    { Null, Thrown, GitHubStats(10000, 20, 0), GitHubStats(0, 0, 31) }

(* Null: the token has no Solana pair; Thrown: the request failed *)
DexResponses ==
    { Null, Thrown, DexTokenData(10000000, 20), DexTokenData(0, -30) }

CrawlerNext ==
    \/ \E p \in CrawlProfiles : CrawlStep /\ RegisterExternalAgent(p)
    \/ CrawlStep /\ RunCycle
    \/ \E k \in 1..Len(cycles), r \in GitHubResponses :
          CrawlStep /\ GitHubReturns(k, r)
    \/ \E k \in 1..Len(cycles), r \in DexResponses :
          CrawlStep /\ DexReturns(k, r)

SpecCrawler == Init /\ [][CrawlerNext]_vars

---------------------------------------------------------------------------
(* The crawler started and stopped, with its timer and the manual trigger.
   The calls and the firings of the timer are bounded; the returns of the
   fetches of a cycle are not, and a request that was made is answered or
   fails in the end. *)

MaxTimerCalls == 3

TimerCall == StepsUpTo(MaxTimerCalls) /\ UNCHANGED facadeVars

FetchReturns ==
    \/ \E k \in 1..Len(cycles), r \in GitHubResponses :
          GitHubReturns(k, r) /\ UNCHANGED <<calls, facadeVars, utilVars>>
    \/ \E k \in 1..Len(cycles), r \in DexResponses :
          DexReturns(k, r) /\ UNCHANGED <<calls, facadeVars, utilVars>>

(* An agent with a source-repo link and a token, and one with neither *)
TimerProfiles ==
    { Profile("BonkBot", TRUE, 0, 0, Rat(100, 1)),
      Profile("AgentX", FALSE, 0, 0, Rat(100, 1)) }

TimerNext ==
    \/ \E p \in TimerProfiles : TimerCall /\ RegisterExternalAgent(p)
    \/ TimerCall /\ Start
    \/ TimerCall /\ Stop
    \/ TimerCall /\ TimerFires
    \/ TimerCall /\ RunCycle
    \/ FetchReturns

SpecTimer == Init /\ [][TimerNext]_vars /\ WF_vars(FetchReturns)

---------------------------------------------------------------------------
(* The crawler while time passes: cycles started by start(), by the timer
   and by the manual trigger at different times, in flight together *)

MaxOverlapCalls == 4

OverlapNext ==
    \/ \E p \in TimerProfiles :
          StepsUpTo(MaxOverlapCalls) /\ UNCHANGED facadeVars
              /\ RegisterExternalAgent(p)
    \/ StepsUpTo(MaxOverlapCalls) /\ UNCHANGED facadeVars /\ Start
    \/ StepsUpTo(MaxOverlapCalls) /\ UNCHANGED facadeVars /\ TimerFires
    \/ StepsUpTo(MaxOverlapCalls) /\ UNCHANGED facadeVars /\ RunCycle
    \/ StepsUpTo(MaxOverlapCalls) /\ UNCHANGED facadeVars /\ Tick
    \/ FetchReturns

SpecOverlap == Init /\ [][OverlapNext]_vars

---------------------------------------------------------------------------
(* Crawl cycles, one at a time, over a store that holds skills and tasks and
   agents whose reputation and statistics tasks change, before a cycle and
   while it is at a fetch *)

MaxFrameCalls == 5

(* A fetch fails or finds nothing, or brings a score: the highest of the
   source-repo link, the lowest of the token *)
FrameFetchReturns ==
    \/ \E k \in 1..Len(cycles), r \in {Thrown, GitHubStats(10000, 20, 0)} :
          GitHubReturns(k, r) /\ UNCHANGED <<calls, facadeVars, utilVars>>
    \/ \E k \in 1..Len(cycles), r \in {Null, DexTokenData(0, -30)} :
          DexReturns(k, r) /\ UNCHANGED <<calls, facadeVars, utilVars>>

FrameNext ==
    \/ StepsUpTo(MaxFrameCalls) /\ UNCHANGED facadeVars
          /\ RegisterExternalAgent(Profile("BonkBot", TRUE, 99, 1,
                                           Rat(974, 10)))
    \/ StepsUpTo(MaxFrameCalls) /\ UNCHANGED facadeVars
          /\ RegisterSkill(SkillInput("Balance Checker"))
    \/ \E a \in MapKeys(agents), sk \in MapKeys(skills) :
          StepsUpTo(MaxFrameCalls) /\ UNCHANGED facadeVars
              /\ CreateTask(a, sk)
    \/ \E t \in MapKeys(tasks), o \in OutcomeInputs :
          StepsUpTo(MaxFrameCalls) /\ UNCHANGED facadeVars
              /\ UpdateTaskStatus(t, IF o[1] = "result" THEN "completed"
                                     ELSE "failed", o[1], o[2])
    \/ (\A k \in 1..Len(cycles) : cycles[k].pc = "done")
          /\ StepsUpTo(MaxFrameCalls) /\ UNCHANGED facadeVars
          /\ RunCycle
    \/ FrameFetchReturns

SpecFrame == Init /\ [][FrameNext]_vars

---------------------------------------------------------------------------
(* The registry with its snapshot handed back to it, or a text that is no
   snapshot *)

MalformedBlobs ==
    { Unparseable, ParsesToNull,
      Document(Missing, Missing, Missing),
      Document([kind |-> "entries", e |-> << >>], NotIterable, Missing),
      Document(Missing, Missing, NotIterable) }

SnapshotNext ==
    \/ Next
    \/ Step /\ ImportData(exportData)
    \/ \E b \in MalformedBlobs : Step /\ ImportData(b)

SpecSnapshot == Init /\ [][SnapshotNext]_vars

---------------------------------------------------------------------------
(* agent-protocol/skills.ts: SkillManager *)

(* An async call of the facade or the skill manager that is suspended at an
   await: the operation, where it is, and what it holds *)
Call(op, pc, id, arg) == [op |-> op, pc |-> pc, id |-> id, arg |-> arg]

RemoveAt(seq, k) == [i \in 1..(Len(seq) - 1) |->
                        IF i < k THEN seq[i] ELSE seq[i + 1]]

(* The four skills initializeBuiltInSkills registers, in its order *)
BuiltInSkills ==
    << SkillData("Balance Checker", <<SkillParameter("address", TRUE)>>),
       SkillData("Price Monitor", << >>),
       SkillData("Transaction Analyzer",
                 <<SkillParameter("address", TRUE),
                   SkillParameter("limit", FALSE)>>),
       SkillData("Network Status", << >>) >>

(* registerBuiltInSkill(n-th skill) up to its await: registry.registerSkill
   has stored the metadata, the handler is not set yet *)
RegisterBuiltInSkill(k, n) ==
    /\ RegisterSkill(BuiltInSkills[n])
    /\ pending' = [pending EXCEPT
                     ![k] = Call("initializeBuiltInSkills", "handler",
                                 generateAgentId("skill"), n)]

(* registerBuiltInSkill resumes: skillHandlers.set(skillId, handler), and
   returns to the await in initializeBuiltInSkills *)
BuiltInHandlerSet(k) ==
    /\ k \in 1..Len(pending)
    /\ pending[k].op = "initializeBuiltInSkills"
    /\ pending[k].pc = "handler"
    /\ skillHandlers' = skillHandlers \cup {pending[k].id}
    /\ pending' = [pending EXCEPT ![k].pc = "registered"]
    /\ UNCHANGED <<registryVars, clock, crawlerVars, initialized,
                   localProfile, thrown, returned>>

(* initializeBuiltInSkills resumes: the next registerBuiltInSkill, or the
   end after the fourth *)
BuiltInNext(k) ==
    /\ k \in 1..Len(pending)
    /\ pending[k].op = "initializeBuiltInSkills"
    /\ pending[k].pc = "registered"
    /\ IF pending[k].arg < Len(BuiltInSkills)
       THEN RegisterBuiltInSkill(k, pending[k].arg + 1)
       ELSE /\ pending' = RemoveAt(pending, k)
            /\ UNCHANGED <<registryVars, clock, crawlerVars>>
    /\ UNCHANGED <<initialized, localProfile, skillHandlers, thrown, returned>>

(* SkillManager.registerSkill up to its await *)
RegisterCustomSkill(skill) ==
    /\ RegisterSkill(skill)
    /\ pending' = Append(pending, Call("registerSkill", "handler",
                                       generateAgentId("skill"), 0))
    /\ UNCHANGED <<initialized, localProfile, skillHandlers, thrown, returned>>

(* SkillManager.registerSkill resumes: skillHandlers.set(skillId, handler) *)
CustomHandlerSet(k) ==
    /\ k \in 1..Len(pending)
    /\ pending[k].op = "registerSkill"
    /\ skillHandlers' = skillHandlers \cup {pending[k].id}
    /\ pending' = RemoveAt(pending, k)
    /\ UNCHANGED <<registryVars, clock, crawlerVars, initialized,
                   localProfile, thrown, returned>>

(* The required parameters of a skill that the bag does not hold
   (param.required && !(param.name in parameters)) *)
MissingRequired(skill, parameters) ==
    {skill.parameters[i].name : i \in
        {j \in 1..Len(skill.parameters) :
            /\ skill.parameters[j].required
            /\ skill.parameters[j].name \notin parameters}}

(* executeSkill without the loop over skill.parameters *)
ExecuteSkillThrowsNoValidation(skillId, parameters) ==
    IF ~MapHas(skills, skillId) THEN "Skill not found"
    ELSE IF skillId \notin skillHandlers THEN "Handler not found"
    ELSE "nothing"

(* executeSkill without the test of the handler *)
ExecuteSkillThrowsNoHandlerCheck(skillId, parameters) ==
    IF ~MapHas(skills, skillId) THEN "Skill not found"
    ELSE IF MissingRequired(MapGet(skills, skillId), parameters) # {}
    THEN "Missing required parameter"
    ELSE "nothing"

(* What executeSkill throws before it calls the handler, if anything *)
ExecuteSkillThrows(skillId, parameters) ==
    IF ~MapHas(skills, skillId) THEN "Skill not found"
    ELSE IF skillId \notin skillHandlers THEN "Handler not found"
    ELSE IF MissingRequired(MapGet(skills, skillId), parameters) # {}
    THEN "Missing required parameter"
    ELSE "nothing"

(* executeSkill up to await handler(parameters), or to its throw *)
ExecuteSkill(skillId, parameters) ==
    /\ thrown' = ExecuteSkillThrows(skillId, parameters)
    /\ pending' = IF thrown' = "nothing"
                  THEN Append(pending,
                              Call("executeSkill", "handler", skillId, 0))
                  ELSE pending
    /\ UNCHANGED <<registryVars, clock, crawlerVars, initialized,
                   localProfile, skillHandlers, returned>>

(* executeSkill resumes and counts the use whether the handler returned or
   threw *)
HandlerReturnsCountsFailure(k, outcome) ==
    /\ k \in 1..Len(pending)
    /\ pending[k].op = "executeSkill"
    /\ skills' = UpdateSkillUsageMap(skills, pending[k].id)
    /\ IF outcome.kind = "value"
       THEN returned' = outcome.v /\ UNCHANGED thrown
       ELSE thrown' = outcome.v /\ UNCHANGED returned
    /\ pending' = RemoveAt(pending, k)
    /\ UNCHANGED <<agents, tasks, nextId, clock, crawlerVars, initialized,
                   localProfile, skillHandlers>>

(* The handler returns: the usage count of the skill, if it is still in the
   store, goes up by one.  Or the handler throws, and executeSkill with it. *)
HandlerReturns(k, outcome) ==
    /\ k \in 1..Len(pending)
    /\ pending[k].op = "executeSkill"
    /\ IF outcome.kind = "value"
       THEN /\ skills' = UpdateSkillUsageMap(skills, pending[k].id)
            /\ returned' = outcome.v
            /\ UNCHANGED thrown
       ELSE /\ thrown' = outcome.v
            /\ UNCHANGED <<skills, returned>>
    /\ pending' = RemoveAt(pending, k)
    /\ UNCHANGED <<agents, tasks, nextId, clock, crawlerVars, initialized,
                   localProfile, skillHandlers>>

---------------------------------------------------------------------------
(* agent-protocol/index.ts: SAPProtocol *)

(* REAL_SOLANA_AGENTS, as seedRealAgents hands them to registerExternalAgent *)
REAL_SOLANA_AGENTS ==
    << Profile("Solana Agent Kit", TRUE, 91, 48200, Rat(974, 10)),
       Profile("GOAT SDK", TRUE, 87, 31500, Rat(951, 10)),
       Profile("Eliza (ai16z)", TRUE, 94, 210000, Rat(932, 10)),
       Profile("BonkBot", FALSE, 89, 5800000, Rat(968, 10)),
       Profile("Trojan Bot", FALSE, 85, 2100000, Rat(945, 10)),
       Profile("Drift Keeper Bot", TRUE, 88, 940000, Rat(991, 10)),
       Profile("AgentiPy", TRUE, 72, 12400, Rat(913, 10)),
       Profile("Photon Sol", FALSE, 83, 3400000, Rat(937, 10)),
       Profile("Jito MEV Bot", TRUE, 86, 1800000, Rat(782, 10)),
       Profile("Axiom Trading Bot", FALSE, 81, 1200000, Rat(924, 10)) >>

(* The profile the facade is initialized with (config.agentName) *)
LocalProfile == Profile("Local Agent", FALSE, 0, 0, Rat(100, 1))

(* profileManager.initialize: registers the local profile in the registry
   and keeps it; profileManager.getProfile() is localProfile afterwards *)
ProfileManagerInitialize(profile) ==
    /\ RegisterAgent(profile)
    /\ localProfile' = generateAgentId("agent")

(* initialize without the test of this.initialized *)
InitializeUnguarded ==
    /\ ProfileManagerInitialize(LocalProfile)
    /\ pending' = Append(pending, Call("initialize", "profile", NoProfile, 0))
    /\ UNCHANGED <<initialized, skillHandlers, thrown, returned>>

(* initialize up to await profileManager.initialize(...), or its return at
   once when the facade is initialized already *)
Initialize ==
    IF initialized
    THEN UNCHANGED <<registryVars, clock, crawlerVars, facadeVars>>
    ELSE /\ ProfileManagerInitialize(LocalProfile)
         /\ pending' = Append(pending,
                              Call("initialize", "profile", NoProfile, 0))
         /\ UNCHANGED <<initialized, skillHandlers, thrown, returned>>

(* The agent map after seedRealAgents has registered its first n seeds.
   Each await in its loop is on a registerExternalAgent that has returned
   already; the loop is taken as one step. *)
RECURSIVE SeededAgents(_, _)
SeededAgents(m, n) ==
    IF n = 0 THEN m
    ELSE MapSet(SeededAgents(m, n - 1),
                <<"agent", nextId["agent"] + n>>,
                RegisterExternalAgentProfile(
                    REAL_SOLANA_AGENTS[n], <<"agent", nextId["agent"] + n>>))

(* initialize resumes after the local profile: seedRealAgents *)
SeedRealAgents(k) ==
    /\ k \in 1..Len(pending)
    /\ pending[k].op = "initialize"
    /\ pending[k].pc = "profile"
    /\ agents' = SeededAgents(agents, Len(REAL_SOLANA_AGENTS))
    /\ nextId' = [nextId EXCEPT !["agent"] = @ + Len(REAL_SOLANA_AGENTS)]
    /\ pending' = [pending EXCEPT ![k].pc = "seeded"]
    /\ UNCHANGED <<skills, tasks, clock, crawlerVars, initialized,
                   localProfile, skillHandlers, thrown, returned>>

(* initialize resumes after seedRealAgents: this.initialized = true *)
InitializeDone(k) ==
    /\ k \in 1..Len(pending)
    /\ pending[k].op = "initialize"
    /\ pending[k].pc = "seeded"
    /\ initialized' = TRUE
    /\ pending' = RemoveAt(pending, k)
    /\ UNCHANGED <<registryVars, clock, crawlerVars, localProfile,
                   skillHandlers, thrown, returned>>

(* String.toLowerCase on the names the model uses *)
toLowerCase(name) ==
    CASE name = "Balance Checker" -> "balance checker"
      [] name = "BALANCE CHECKER" -> "balance checker"
      [] name = "Price Monitor" -> "price monitor"
      [] name = "Transaction Analyzer" -> "transaction analyzer"
      [] name = "Network Status" -> "network status"
      [] name = "Nonexistent Skill" -> "nonexistent skill"
      [] name = "Balance" -> "balance"
      [] OTHER -> name

(* skills.find without the comparison of the names *)
FindSkillAnyName(skillName) ==
    IF Len(skills) > 0 THEN skills[1].v.id ELSE <<"unknown", 0>>

(* skills.find(s => s.name.toLowerCase() === skillName.toLowerCase()): the
   first match in the order of the store, or undefined *)
FindSkill(skillName) ==
    LET matches == {i \in 1..Len(skills) :
                      toLowerCase(skills[i].v.name) = toLowerCase(skillName)}
    IN  IF matches = {} THEN <<"unknown", 0>>
        ELSE skills[CHOOSE i \in matches : \A j \in matches : i <= j].v.id

(* recordTask up to await registry.createTask(...), or its return at once *)
RecordTask(skillName, success) ==
    IF \/ ~initialized
       \/ localProfile = NoProfile
       \/ FindSkill(skillName) = <<"unknown", 0>>
    THEN UNCHANGED <<registryVars, clock, crawlerVars, facadeVars>>
    ELSE /\ CreateTask(localProfile, FindSkill(skillName))
         /\ pending' = Append(pending, Call("recordTask", "created",
                                            generateAgentId("task"), success))
         /\ UNCHANGED <<initialized, localProfile, skillHandlers, thrown, returned>>

(* recordTask resumes and reports 'completed' whatever success is *)
RecordTaskResumesAlwaysCompleted(k) ==
    /\ k \in 1..Len(pending)
    /\ pending[k].op = "recordTask"
    /\ UpdateTaskStatus(pending[k].id, "completed", "result", "undefined")
    /\ pending' = RemoveAt(pending, k)
    /\ UNCHANGED <<initialized, localProfile, skillHandlers, thrown, returned>>

(* recordTask resumes: updateTaskStatus with the outcome *)
RecordTaskResumes(k) ==
    /\ k \in 1..Len(pending)
    /\ pending[k].op = "recordTask"
    /\ IF pending[k].arg
       THEN UpdateTaskStatus(pending[k].id, "completed", "result", "undefined")
       ELSE UpdateTaskStatus(pending[k].id, "failed", "undefined",
                             "Command failed")
    /\ pending' = RemoveAt(pending, k)
    /\ UNCHANGED <<initialized, localProfile, skillHandlers, thrown, returned>>

---------------------------------------------------------------------------
(* The facade after new SAPProtocol(...), under any sequence of calls to it,
   to its skill manager and to its registry.  The constructor of the skill
   manager calls initializeBuiltInSkills without awaiting it, so the facade
   starts with the first built-in skill in the store and its handler not
   set.  The calls are bounded; what a call does after its awaits is not. *)

MaxFacadeCalls == 3

FacadeCall == StepsUpTo(MaxFacadeCalls)

FacadeInit ==
    /\ agents = EmptyMap
    /\ skills = MapSet(EmptyMap, <<"skill", 1>>,
                       RegisterSkillRecord(BuiltInSkills[1], <<"skill", 1>>))
    /\ tasks = EmptyMap
    /\ nextId = [map \in {"agent", "skill", "task"} |->
                    IF map = "skill" THEN 1 ELSE 0]
    /\ clock = 0
    /\ crawler = InitialStatus
    /\ timers = NoTimers
    /\ cycles = << >>
    /\ initialized = FALSE
    /\ localProfile = NoProfile
    /\ skillHandlers = {}
    /\ pending = <<Call("initializeBuiltInSkills", "handler", <<"skill", 1>>, 1)>>
    /\ thrown = "nothing"
    /\ returned = "nothing"
    /\ scored = Unscored
    /\ retry = NotRetrying
    /\ lastStats = NoResult
    /\ calls = 0

RecordTaskNames == {"BALANCE CHECKER", "Nonexistent Skill", "Balance"}

ParameterBags == {{}, {"address"}}

(* A handler returns a value, returns undefined, or throws *)
HandlerOutcomes ==
    {Resolved("1.5 SOL"), Resolved("undefined"), Rejected("Handler failed")}

CustomSkill == SkillData("Custom Skill", <<SkillParameter("address", TRUE)>>)

FacadeNext ==
    \/ \E k \in 1..Len(pending) : BuiltInHandlerSet(k) /\ UNCHANGED <<calls, utilVars>>
    \/ \E k \in 1..Len(pending) : BuiltInNext(k) /\ UNCHANGED <<calls, utilVars>>
    \/ FacadeCall /\ Initialize
    \/ \E k \in 1..Len(pending) : SeedRealAgents(k) /\ UNCHANGED <<calls, utilVars>>
    \/ \E k \in 1..Len(pending) : InitializeDone(k) /\ UNCHANGED <<calls, utilVars>>
    \/ \E n \in RecordTaskNames, b \in BOOLEAN :
          FacadeCall /\ RecordTask(n, b)
    \/ \E k \in 1..Len(pending) : RecordTaskResumes(k) /\ UNCHANGED <<calls, utilVars>>
    \/ FacadeCall /\ RegisterCustomSkill(CustomSkill)
    \/ \E k \in 1..Len(pending) : CustomHandlerSet(k) /\ UNCHANGED <<calls, utilVars>>
    \/ \E id \in IdInputs(skills), bag \in ParameterBags :
          FacadeCall /\ ExecuteSkill(id, bag)
    \/ \E k \in 1..Len(pending), o \in HandlerOutcomes :
          HandlerReturns(k, o) /\ UNCHANGED <<calls, utilVars>>
    \/ FacadeCall /\ RegisterSkill(CustomSkill) /\ UNCHANGED facadeVars

SpecFacade == FacadeInit /\ [][FacadeNext]_vars

---------------------------------------------------------------------------
(* Properties of the registry *)

Agent(i) == agents[i].v
Skill(i) == skills[i].v
Task(i) == tasks[i].v

(* C1: every agent's reputation is within [0,100] after any sequence of
   updateReputation calls, direct or made by updateTaskStatus with a terminal
   status, the agents being registered with a reputation in [0,100]. *)
C1_ReputationInRange ==
    \A i \in 1..Len(agents) :
        Agent(i).reputation >= 0 /\ Agent(i).reputation <= 100

(* Both ends are hit: an agent registered at 100 has had a success applied,
   and a failed task has taken its agent, registered at 0, below 0. *)
C1_BothClampsHit ==
    /\ \E i \in 1..Len(agents) :
          Agent(i).reputation = 100 /\ Agent(i).tasksCompleted = 1
    /\ \E j \in 1..Len(tasks) :
          /\ Task(j).status = "failed"
          /\ MapHas(agents, Task(j).agentId)
          /\ MapGet(agents, Task(j).agentId).reputation = 0
          /\ MapGet(agents, Task(j).agentId).tasksCompleted = 1

(* The step is a call updateTaskStatus(taskId, status, ...) with a terminal
   status on a task that is terminal already. *)
TerminalAgain ==
    \E t \in MapKeys(tasks), st \in Terminal, o \in OutcomeInputs :
        /\ MapGet(tasks, t).status \in Terminal
        /\ UpdateTaskStatus(t, st, o[1], o[2])

(* C2: updateTaskStatus with a terminal status on a task that is already
   completed or failed applies no second reputation delta and no second
   tasksCompleted increment to the owning agent, and no second usageCount
   increment to the target skill. *)
C2_TerminalIdempotent ==
    [][TerminalAgain => (agents' = agents /\ skills' = skills)]_vars

(* C3: every task is created pending, and once a task is completed or failed
   no call changes its status, result, error or completedAt. *)
C3_TerminalImmutable ==
    [][\A i \in 1..Len(tasks') :
          IF i > Len(tasks)
          THEN (tasks')[i].v.status = "pending"
          ELSE Task(i).status \in Terminal =>
                  /\ (tasks')[i].v.status = Task(i).status
                  /\ (tasks')[i].v.result = Task(i).result
                  /\ (tasks')[i].v.error = Task(i).error
                  /\ (tasks')[i].v.completedAt = Task(i).completedAt]_vars

(* successRate = n / d lies in [0,100] *)
RateInRange(r) == r.d > 0 /\ r.n >= 0 /\ r.n <= 100 * r.d

(* C9: every agent's successRate stays within [0,100], the agents being
   registered with a successRate in [0,100], also through
   registerExternalAgent with the caller's reputation and tasksCompleted. *)
C9_SuccessRateInRange ==
    \A i \in 1..Len(agents) : RateInRange(Agent(i).successRate)

(* C10: a task of an agent with reputation 0 and tasksCompleted 0 against a
   skill never used, moved to a terminal status for the first time, leaves
   tasksCompleted = 1 and usageCount = 1, and reputation 1 if the status is
   completed and 0 if it is failed. *)
C10_FirstOutcome ==
    [][\A i \in 1..Len(tasks) :
          LET t == Task(i)
              after == (tasks')[i].v
          IN  ( /\ t.status \notin Terminal
                /\ after.status \in Terminal
                /\ MapHas(agents, t.agentId)
                /\ MapHas(skills, t.skillId)
                /\ MapGet(agents, t.agentId).reputation = 0
                /\ MapGet(agents, t.agentId).tasksCompleted = 0
                /\ MapGet(skills, t.skillId).usageCount = 0 )
              => /\ MapGet(agents', t.agentId).tasksCompleted = 1
                 /\ MapGet(skills', t.skillId).usageCount = 1
                 /\ MapGet(agents', t.agentId).reputation =
                        (IF after.status = "completed" THEN 1 ELSE 0)]_vars

(* The failure path has run: a failed task, its agent at 0 after one task,
   its skill used once. *)
C10_FailurePathDone ==
    \E i \in 1..Len(tasks) :
        /\ Task(i).status = "failed"
        /\ MapHas(agents, Task(i).agentId)
        /\ MapHas(skills, Task(i).skillId)
        /\ MapGet(agents, Task(i).agentId).reputation = 0
        /\ MapGet(agents, Task(i).agentId).tasksCompleted = 1
        /\ MapGet(skills, Task(i).skillId).usageCount = 1

---------------------------------------------------------------------------
(* Properties of the crawler *)

LiveScoreInRange(x) == x >= -10 /\ x <= 10

(* C4: whatever the source-control and market-data deltas of a crawl cycle
   are, with either source present or absent, the liveScore stored in an
   agent's liveData and in the cycle's CrawlResults is within [-10, +10]. *)
C4_LiveScoreClamped ==
    /\ \A i \in 1..Len(agents) :
          Agent(i).liveData.kind = "object" =>
              LiveScoreInRange(Agent(i).liveData.liveScore)
    /\ \A k \in 1..Len(cycles) : \A j \in 1..Len(cycles[k].results) :
          LiveScoreInRange(cycles[k].results[j].liveScore)
    /\ \A j \in 1..Len(crawler.lastResults) :
          LiveScoreInRange(crawler.lastResults[j].liveScore)

(* The clamp has cut a sum: both sources contributed, their deltas add up
   to more than 10, and 10 is what is stored. *)
C4_ClampCutsSum ==
    \E i \in 1..Len(agents) :
        /\ Agent(i).liveData.kind = "object"
        /\ Agent(i).liveData.crawlSource = <<"github", "dexscreener">>
        /\ computeGitHubScore(Agent(i).liveData.github)
              + computeDexScore(Agent(i).liveData.token) > 10
        /\ Agent(i).liveData.liveScore = 10
        /\ \E j \in 1..Len(crawler.lastResults) :
              /\ crawler.lastResults[j].agentId = Agent(i).id
              /\ crawler.lastResults[j].liveScore = 10

(* C5: a source-control fetch that fails (an exception or null) for an agent
   does not end the cycle: the cycle goes on to that agent's market-data
   fetch, whose data is written to the agent's liveData, and then to the
   next agent of the snapshot, whose fetches are made and applied alike;
   the cycle ends only after its last agent. *)
C5_CrawlIsolation ==
    [][\A k \in 1..Len(cycles) :
          LET c == cycles[k]
              d == (cycles')[k]
              agent == c.snapshot[c.i]
          IN  /\ (c.pc = "github" /\ d # c) =>
                    /\ d.pc = "dex" /\ d.i = c.i
                    /\ d.snapshot = c.snapshot /\ d.results = c.results
                    /\ \A r \in GitHubResponses :
                          (r.kind = "stats" /\ GitHubReturns(k, r)) =>
                              d.github = r /\ d.sources = <<"github">>
              /\ (c.pc = "dex" /\ d # c) =>
                    /\ d.snapshot = c.snapshot
                    /\ IF c.i < Len(c.snapshot)
                       THEN /\ d.i = c.i + 1
                            /\ d.pc = IF c.snapshot[c.i + 1].github
                                      THEN "github" ELSE "dex"
                       ELSE d.i = c.i /\ d.pc = "done"
                    /\ \A r \in DexResponses :
                          ( /\ r.kind = "token"
                            /\ agent.name \in AGENT_TOKEN_MAP
                            /\ DexReturns(k, r) ) =>
                              LET live == MapGet(agents', agent.id).liveData
                              IN  /\ live.token = r
                                  /\ live.github = c.github
                                  /\ live.crawlSource =
                                        Append(c.sources, "dexscreener")
              /\ (c.pc = "done") => d = c]_vars

(* A cycle over two agents is done; the first has a source-repo link and its
   source-control fetch failed, yet its market data was written, and the
   second got both sources. *)
C5_FailedFetchIsolated ==
    \E k \in 1..Len(cycles) :
        /\ cycles[k].pc = "done"
        /\ Len(cycles[k].snapshot) = 2
        /\ cycles[k].snapshot[1].github
        /\ MapGet(agents, cycles[k].snapshot[1].id).liveData.kind = "object"
        /\ MapGet(agents, cycles[k].snapshot[1].id).liveData.crawlSource
              = <<"dexscreener">>
        /\ MapGet(agents, cycles[k].snapshot[2].id).liveData.kind = "object"
        /\ MapGet(agents, cycles[k].snapshot[2].id).liveData.crawlSource
              = <<"github", "dexscreener">>

(* C6: an agent for which the cycle got no successful source ends its
   iteration with no result pushed (sources == []) and its liveData as it
   was, while an agent whose token fetch succeeded gets its liveData
   replaced. *)
C6_NoSourceNoOverwrite ==
    [][\A k \in 1..Len(cycles) :
          LET c == cycles[k]
              d == (cycles')[k]
          IN  (c.pc = "dex" /\ d # c) =>
                  IF d.results = c.results
                  THEN agents' = agents
                  ELSE MapGet(agents', c.snapshot[c.i].id).liveData.lastCrawledAt
                          = ISO(c.now)]_vars

---------------------------------------------------------------------------
(* Properties of the snapshot *)

(* C7: importData(exportData()) yields a store with the same agents, skills
   and tasks: the same ids and, for every entity, the same value and kind of
   value in every field, the timestamps included. *)
C7_RoundTrip ==
    [][ImportData(exportData) =>
          (agents' = agents /\ skills' = skills /\ tasks' = tasks)]_vars

(* C8: importData of a text that does not parse, or that parses to something
   that is not a snapshot of the three maps, leaves the agent, skill and
   task maps as they were. *)
C8_MalformedImportKeepsState ==
    [][(\E b \in MalformedBlobs : ImportData(b)) =>
          (agents' = agents /\ skills' = skills /\ tasks' = tasks)]_vars

---------------------------------------------------------------------------
(* Properties of the crawler's timer *)

(* C17: start() while the crawler is running starts no cycle and sets no
   timer; after any sequence of start() and stop() at most one interval
   timer is active, and one is active exactly when status.running is
   true. *)
C17_StartIdempotent ==
    /\ [](/\ Cardinality(timers.active) <= 1
          /\ (timers.active # {}) <=> crawler.running)
    /\ [][(crawler.running /\ Start) =>
             UNCHANGED <<cycles, timers, crawler, agents>>]_vars

(* The crawler was started, stopped and started again: the second timer is
   the only one active *)
C17_RestartedOnce ==
    /\ crawler.running
    /\ timers.made = 2
    /\ timers.active = {2}
    /\ timers.field = 2

InFlight == {k \in 1..Len(cycles) : cycles[k].pc # "done"}

(* C18: after stop() the timer starts no cycle until start() is called
   again, and stop() aborts no cycle in flight: the cycle is left as it is,
   goes on to its end (every cycle that was started comes to its end), and
   at its end writes the agent's liveData and the status record (lastRun,
   totalCrawled, lastResults) as it does while the crawler runs. *)
C18_StopKeepsCycles ==
    /\ [][(TimerFires /\ cycles' # cycles) => crawler.running]_vars
    /\ [][Stop => (cycles' = cycles /\ agents' = agents)]_vars
    /\ [][\A k \in 1..Len(cycles) :
             LET c == cycles[k]
                 d == (cycles')[k]
             IN  (~crawler.running /\ c.pc = "dex" /\ d # c) =>
                    /\ MapGet(agents', c.snapshot[c.i].id).liveData.lastCrawledAt
                          = ISO(c.now)
                    /\ d.pc = "done" =>
                          /\ crawler'.lastRun = ISO(c.now)
                          /\ crawler'.lastResults = d.results
                          /\ crawler'.totalCrawled
                                = crawler.totalCrawled + Len(d.results)]_vars
    /\ <>[](InFlight = {})

(* The crawler is stopped after a start, and the cycle it had started has
   come to its end with a result *)
C18_FinishedAfterStop ==
    /\ ~crawler.running
    /\ timers.made = 1
    /\ timers.active = {}
    /\ Len(cycles) = 1
    /\ cycles[1].pc = "done"
    /\ Len(cycles[1].results) = 1
    /\ crawler.lastResults = cycles[1].results
    /\ crawler.totalCrawled = 1

(* The results of the cycles that have come to their end *)
RECURSIVE CrawledBy(_, _)
CrawledBy(cs, n) ==
    IF n = 0 THEN 0
    ELSE CrawledBy(cs, n - 1)
           + (IF cs[n].pc = "done" THEN Len(cs[n].results) ELSE 0)

(* C23: totalCrawled is the sum, over the cycles that have come to their
   end, of the number of agents that got a source in the cycle, also while
   cycles started by the timer and by the manual trigger overlap; a cycle's
   list holds entries of that cycle only, one for each agent whose liveData
   the cycle wrote with a source, and the cycle's last step adds the length
   of its list to totalCrawled and makes the list lastResults. *)
C23_TotalCrawledIsSum ==
    /\ [](crawler.totalCrawled = CrawledBy(cycles, Len(cycles)))
    /\ [](\A k \in 1..Len(cycles) : \A j \in 1..Len(cycles[k].results) :
            /\ cycles[k].results[j].updatedAt = ISO(cycles[k].now)
            /\ cycles[k].results[j].sources # << >>
            /\ \A l \in 1..Len(cycles[k].results) :
                  cycles[k].results[l].agentId = cycles[k].results[j].agentId
                      => l = j)
    /\ [][\A k \in 1..Len(cycles) :
             LET c == cycles[k]
                 d == (cycles')[k]
                 id == c.snapshot[c.i].id
                 live == MapGet(agents', id).liveData
             IN  (c.pc = "dex" /\ d # c) =>
                    /\ IF live.crawlSource # << >>
                       THEN /\ Len(d.results) = Len(c.results) + 1
                            /\ SubSeq(d.results, 1, Len(c.results)) = c.results
                            /\ d.results[Len(d.results)].agentId = id
                            /\ d.results[Len(d.results)].sources
                                  = live.crawlSource
                       ELSE d.results = c.results
                    /\ d.pc = "done" =>
                          /\ crawler'.lastResults = d.results
                          /\ crawler'.totalCrawled
                                = crawler.totalCrawled + Len(d.results)]_vars

(* Two cycles overlapped: the second, started by the timer or the manual
   trigger while the first was at its token fetch with a source found, has
   come to its end with one result, which is what the status shows. *)
C23_OverlapCounted ==
    /\ crawler.running
    /\ Len(cycles) = 2
    /\ cycles[1].pc = "dex"
    /\ cycles[1].sources # << >>
    /\ cycles[2].pc = "done"
    /\ Len(cycles[2].results) = 1
    /\ crawler.totalCrawled = 1
    /\ crawler.lastResults = cycles[2].results

(* C29: status.lastRun and every agent's liveData.lastCrawledAt never go
   back in time, whatever cycles started by the timer and by the manual
   trigger are in flight together: a cycle that started earlier does not
   overwrite what a cycle that started later has written. *)
C29_LastRunMonotone ==
    [][ /\ crawler.lastRun.kind = "string" =>
              crawler'.lastRun.t >= crawler.lastRun.t
        /\ \A i \in 1..Len(agents) :
              Agent(i).liveData.kind = "object" =>
                  (agents')[i].v.liveData.lastCrawledAt.t
                      >= Agent(i).liveData.lastCrawledAt.t ]_vars

(* C30: a step of a crawl cycle (its start, the return of a fetch, its
   end) adds and removes no agent and leaves every agent's fields other than
   liveData, reputation, tasksCompleted, successRate and lastActive among
   them, and every skill and every task as they were, whatever the fetches
   return. *)
C30_CrawlTouchesLiveDataOnly ==
    [][cycles' # cycles =>
          /\ skills' = skills
          /\ tasks' = tasks
          /\ nextId' = nextId
          /\ Len(agents') = Len(agents)
          /\ \A i \in 1..Len(agents) :
                /\ (agents')[i].k = agents[i].k
                /\ [(agents')[i].v EXCEPT !.liveData = Agent(i).liveData]
                      = Agent(i)]_vars

(* A cycle has come to its end with a result for an agent whose reputation
   a completed task had raised before the cycle started, in a store with a
   used skill and a completed task *)
C30_CrawledAfterTask ==
    /\ Len(agents) = 1
    /\ Agent(1).reputation = 100
    /\ Agent(1).tasksCompleted = 2
    /\ Agent(1).liveData.kind = "object"
    /\ Agent(1).liveData.crawlSource # << >>
    /\ Len(skills) = 1 /\ Skill(1).usageCount = 1
    /\ Len(tasks) = 1 /\ Task(1).status = "completed"
    /\ Len(cycles) = 1
    /\ cycles[1].pc = "done"
    /\ Len(cycles[1].results) = 1

---------------------------------------------------------------------------
(* Properties of the facade and the skill manager *)

NameMatches(skillName) ==
    \E i \in 1..Len(skills) :
        toLowerCase(Skill(i).name) = toLowerCase(skillName)

(* C11: recordTask with a skill name that matches no registered skill
   (case-insensitive, exact), or before the facade is initialized, or while
   the local profile is missing, creates no task and changes no agent and no
   skill: the store is the same before and after, and nothing is left in
   flight. *)
C11_RecordTaskNoOp ==
    [][\A n \in RecordTaskNames, b \in BOOLEAN :
          ( /\ RecordTask(n, b)
            /\ \/ ~initialized
               \/ localProfile = NoProfile
               \/ ~NameMatches(n) ) =>
              UNCHANGED <<agents, skills, tasks, nextId, pending>>]_vars

(* The facade is initialized, its built-in skills are registered, a call
   was made after the initialization, and there is no task *)
C11_NothingRecorded ==
    /\ initialized
    /\ pending = << >>
    /\ Len(skills) = Len(BuiltInSkills)
    /\ ~NameMatches("Nonexistent Skill") /\ ~NameMatches("Balance")
    /\ calls = 2
    /\ tasks = EmptyMap

(* The initialize calls in flight *)
Initializing == {k \in 1..Len(pending) : pending[k].op = "initialize"}

Named(name) == {i \in 1..Len(agents) : Agent(i).name = name}

(* C28: when initialize is called again while an earlier call is suspended
   at an await, before the flag is set, the store ends up with exactly one
   copy of each seed agent and exactly one local profile, and the flag is
   set only once the seeds are in the store. *)
C28_ConcurrentInitializeSeedsOnce ==
    /\ initialized =>
          \A n \in 1..Len(REAL_SOLANA_AGENTS) :
              Named(REAL_SOLANA_AGENTS[n].name) # {}
    /\ (initialized /\ Initializing = {}) =>
          /\ \A n \in 1..Len(REAL_SOLANA_AGENTS) :
                Cardinality(Named(REAL_SOLANA_AGENTS[n].name)) = 1
          /\ Cardinality(Named(LocalProfile.name)) = 1

(* The recordTask calls in flight for a task *)
RecordingOf(taskId) ==
    {k \in 1..Len(pending) :
        pending[k].op = "recordTask" /\ pending[k].id = taskId}

TerminalTasks == {i \in 1..Len(tasks) : Task(i).status \in Terminal}

(* C24: with the facade initialized, the local profile present and a skill
   of that name (case-insensitive) registered, recordTask creates exactly one
   task, of the local profile and of that skill, and on resuming makes it
   'completed' with the result when success is true and 'failed' with
   'Command failed' when it is false, with one reputation update of the local
   profile and one usageCount increment of that skill and of no other; so
   every task is either recorded already or has one recordTask in flight,
   and the local profile's tasksCompleted is the number of recorded tasks. *)
C24_RecordTaskRecordsOnce ==
    /\ [][\A n \in RecordTaskNames, b \in BOOLEAN :
            ( /\ RecordTask(n, b)
              /\ initialized
              /\ localProfile # NoProfile
              /\ NameMatches(n) ) =>
                /\ Len(tasks') = Len(tasks) + 1
                /\ SubSeq(tasks', 1, Len(tasks)) = tasks
                /\ tasks'[Len(tasks')].v.agentId = localProfile
                /\ MapHas(skills, tasks'[Len(tasks')].v.skillId)
                /\ toLowerCase(MapGet(skills, tasks'[Len(tasks')].v.skillId).name)
                      = toLowerCase(n)
                /\ tasks'[Len(tasks')].v.status = "pending"
                /\ RecordingOf(tasks'[Len(tasks')].k) = {}
                /\ pending'[Len(pending')]
                      = Call("recordTask", "created", tasks'[Len(tasks')].k, b)
                /\ UNCHANGED <<agents, skills>>]_vars
    /\ [][\A k \in 1..Len(pending) :
            RecordTaskResumes(k) =>
                LET id == pending[k].id
                    old == MapGet(tasks, id)
                    new == MapGet(tasks', id)
                    agent == MapGet(agents, localProfile)
                IN  /\ MapKeys(tasks') = MapKeys(tasks)
                    /\ \A t \in MapKeys(tasks) \ {id} :
                          MapGet(tasks', t) = MapGet(tasks, t)
                    /\ new.agentId = localProfile /\ new.skillId = old.skillId
                    /\ IF pending[k].arg
                       THEN /\ new.status = "completed"
                            /\ new.result = "result"
                            /\ new.error = "undefined"
                       ELSE /\ new.status = "failed"
                            /\ new.result = "undefined"
                            /\ new.error = "Command failed"
                    /\ MapGet(agents', localProfile).tasksCompleted
                          = agent.tasksCompleted + 1
                    /\ MapGet(agents', localProfile).reputation
                          = NewReputation(agent.reputation, pending[k].arg)
                    /\ \A a \in MapKeys(agents) \ {localProfile} :
                          MapGet(agents', a) = MapGet(agents, a)
                    /\ MapGet(skills', old.skillId).usageCount
                          = MapGet(skills, old.skillId).usageCount + 1
                    /\ \A sk \in MapKeys(skills) \ {old.skillId} :
                          MapGet(skills', sk) = MapGet(skills, sk)]_vars
    /\ [](\A i \in 1..Len(tasks) :
            /\ Task(i).agentId = localProfile
            /\ IF Task(i).status \in Terminal
               THEN RecordingOf(Task(i).id) = {}
               ELSE Task(i).status = "pending"
                      /\ Cardinality(RecordingOf(Task(i).id)) = 1)
    /\ [](localProfile # NoProfile =>
            MapGet(agents, localProfile).tasksCompleted
                = Cardinality(TerminalTasks))

(* Two recordTask calls have come to their end after the initialization, one
   for a success and one for a failure, on the same skill *)
C24_BothOutcomesRecorded ==
    /\ initialized
    /\ Len(tasks) = 2
    /\ Task(1).status = "completed" /\ Task(1).result = "result"
    /\ Task(2).status = "failed" /\ Task(2).error = "Command failed"
    /\ Task(1).skillId = Task(2).skillId
    /\ MapGet(agents, localProfile).tasksCompleted = 2
    /\ MapGet(skills, Task(1).skillId).usageCount = 2
    /\ RecordingOf(Task(1).id) = {} /\ RecordingOf(Task(2).id) = {}

(* C13: initialize called after an earlier initialize has completed
   registers no local profile, adds no seed agent and leaves the agent,
   skill and task maps and the initialized flag as they are. *)
C13_InitializeIdempotent ==
    [][(initialized /\ Initialize) =>
          UNCHANGED <<agents, skills, tasks, nextId, initialized,
                      localProfile, pending>>]_vars

(* Two calls were made, the facade is initialized, and the store holds one
   local profile and one copy of each seed *)
C13_InitializedOnce ==
    /\ initialized
    /\ calls = 2
    /\ pending = << >>
    /\ Len(agents) = 1 + Len(REAL_SOLANA_AGENTS)
    /\ localProfile = Agent(1).id
    /\ \A n \in 1..Len(REAL_SOLANA_AGENTS) :
          Agent(n + 1).name = REAL_SOLANA_AGENTS[n].name

(* C14: at every point between and after skill registrations (the built-in
   bootstrap, SkillManager.registerSkill, SAPRegistry.registerSkill), every
   skill in the store's skill map has a handler in the skill manager's
   id -> handler map. *)
C14_SkillsHaveHandlers ==
    \A i \in 1..Len(skills) : Skill(i).id \in skillHandlers

LacksRequired(skill, bag) ==
    \E j \in 1..Len(skill.parameters) :
        skill.parameters[j].required /\ skill.parameters[j].name \notin bag

HandlerCalls == {k \in 1..Len(pending) : pending[k].op = "executeSkill"}

(* C15: executeSkill with a parameter bag that lacks a parameter flagged
   required is rejected before the handler is invoked, with the missing-
   parameter error when the skill and its handler are found: no handler call
   is started, and the usage counts and the rest of the store are
   unchanged. *)
C15_MissingParameterRejected ==
    [][\A id \in MapKeys(skills), bag \in ParameterBags :
          (ExecuteSkill(id, bag) /\ LacksRequired(MapGet(skills, id), bag)) =>
              /\ thrown' # "nothing"
              /\ id \in skillHandlers =>
                    thrown' = "Missing required parameter"
              /\ pending' = pending
              /\ UNCHANGED <<agents, skills, tasks, nextId, skillHandlers>>]_vars

(* A call was rejected for a missing parameter: no handler runs and no
   skill was used *)
C15_RejectedForParameter ==
    /\ thrown = "Missing required parameter"
    /\ HandlerCalls = {}
    /\ \A i \in 1..Len(skills) : Skill(i).usageCount = 0

(* C16: executeSkill fails with a not-found error, without invoking a
   handler and without changing a usage count, whenever the skill id is
   missing from the store or missing from the handler map. *)
C16_NotFoundRejected ==
    [][\A id \in IdInputs(skills), bag \in ParameterBags :
          ( /\ ExecuteSkill(id, bag)
            /\ ~MapHas(skills, id) \/ id \notin skillHandlers ) =>
              /\ thrown' = IF MapHas(skills, id) THEN "Handler not found"
                                                 ELSE "Skill not found"
              /\ pending' = pending
              /\ UNCHANGED <<agents, skills, tasks, nextId, skillHandlers>>]_vars

(* A call for a skill that is in the store without a handler was rejected,
   with the parameters it requires supplied *)
C16_RejectedForHandler ==
    /\ thrown = "Handler not found"
    /\ HandlerCalls = {}
    /\ \E i \in 1..Len(skills) :
          Skill(i).id \notin skillHandlers /\ Skill(i).usageCount = 0

(* C25: a skill's usageCount goes up by exactly 1 when the handler of an
   executeSkill call returns, by 0 when executeSkill is rejected (skill or
   handler not found, required parameter missing) and by 0 when the handler
   throws; executeSkill returns what the handler returned, and throws what
   the handler threw. *)
C25_UsageCountedOnSuccess ==
    /\ [][\A id \in IdInputs(skills), bag \in ParameterBags :
            ExecuteSkill(id, bag) =>
                /\ skills' = skills
                /\ returned' = returned
                /\ thrown' # "nothing" => pending' = pending]_vars
    /\ [][\A k \in 1..Len(pending), o \in HandlerOutcomes :
            HandlerReturns(k, o) =>
                LET id == pending[k].id
                IN  /\ MapKeys(skills') = MapKeys(skills)
                    /\ \A sk \in MapKeys(skills) \ {id} :
                          MapGet(skills', sk) = MapGet(skills, sk)
                    /\ IF o.kind = "value"
                       THEN /\ MapGet(skills', id).usageCount
                                 = MapGet(skills, id).usageCount + 1
                            /\ returned' = o.v
                            /\ thrown' = thrown
                       ELSE /\ skills' = skills
                            /\ thrown' = o.v
                            /\ returned' = returned]_vars

(* Of three executeSkill calls on the first built-in skill, one was
   rejected or its handler threw, and two returned: the count is 2 and the
   last value returned is the handler's. *)
C25_CountedTwice ==
    /\ calls = 3
    /\ HandlerCalls = {}
    /\ Skill(1).usageCount = 2
    /\ tasks = EmptyMap
    /\ thrown # "nothing"
    /\ returned = "1.5 SOL"

---------------------------------------------------------------------------
(* Properties of getStats *)

(* C12: in every reachable state getStats().totalAgents is the length of
   listAgents(), totalSkills and totalTasks are the sizes of the skill and
   task maps, and averageReputation is the number 0 (not NaN) when the
   store holds no agent. *)
C12_StatsConsistent ==
    /\ getStats.totalAgents = Len(listAgents)
    /\ getStats.totalAgents = Cardinality(MapKeys(agents))
    /\ getStats.totalSkills = Cardinality(MapKeys(skills))
    /\ getStats.totalTasks = Cardinality(MapKeys(tasks))
    /\ agents = EmptyMap =>
          /\ getStats.averageReputation.kind = "number"
          /\ getStats.averageReputation.n = 0

(* A store that an import has emptied of agents while it holds a task, and
   the statistics of it *)
C12_EmptyStoreStats ==
    /\ agents = EmptyMap
    /\ nextId["agent"] > 0
    /\ Len(tasks) > 0
    /\ getStats.totalAgents = 0
    /\ getStats.totalTasks = Len(tasks)
    /\ getStats.averageReputation = Divide(0, 1)


(* The place of an agent in listAgents() *)
PlaceOf(id) == MapIdx(agents, id)

(* a comes before b in the order of topAgents: a higher reputation, or the
   same reputation and an earlier place in the store *)
RanksBefore(a, b) ==
    \/ a.reputation > b.reputation
    \/ a.reputation = b.reputation /\ PlaceOf(a.id) < PlaceOf(b.id)

(* C26: getStats().topAgents lists at most 5 agents, the min(5, number of
   agents) agents of the highest reputation, in descending order of
   reputation with agents of the same reputation in their order of
   insertion; and the call leaves the agents, skills and tasks, and so the
   order listAgents() returns, as they were. *)
C26_TopAgents ==
    [][GetStats =>
        LET top == lastStats'.topAgents
            listed == {top[i].id : i \in 1..Len(top)}
        IN  /\ Len(top) <= 5
            /\ Len(top) = Min(5, Len(agents))
            /\ \A i \in 1..Len(top) :
                  /\ MapHas(agents, top[i].id)
                  /\ top[i] = TopAgentOf(MapGet(agents, top[i].id))
            /\ \A i, j \in 1..Len(top) : i < j => RanksBefore(top[i], top[j])
            /\ \A i \in 1..Len(top), a \in MapKeys(agents) \ listed :
                  RanksBefore(top[i], MapGet(agents, a))
            /\ UNCHANGED <<agents, skills, tasks>>]_vars

(* getStats() has returned five of six agents, with two agents of the same
   reputation listed in their order of insertion behind a later agent of a
   higher reputation, and a last agent of that same reputation left out *)
C26_TieCutAtFive ==
    /\ lastStats # NoResult
    /\ Len(agents) = 6
    /\ lastStats.totalAgents = 6
    /\ Len(lastStats.topAgents) = 5
    /\ PlaceOf(lastStats.topAgents[1].id) > PlaceOf(lastStats.topAgents[2].id)
    /\ lastStats.topAgents[2].reputation = lastStats.topAgents[5].reputation
    /\ Agent(6).reputation = lastStats.topAgents[5].reputation
    /\ \A i \in 1..5 : lastStats.topAgents[i].id # Agent(6).id

---------------------------------------------------------------------------
(* Properties of registration *)

(* The agent map after a registration: the entries it had, in place, and one
   new entry under the id just generated *)
RegisteredFresh(id) ==
    /\ ~MapHas(agents, id)
    /\ Len(agents') = Len(agents) + 1
    /\ SubSeq(agents', 1, Len(agents)) = agents
    /\ agents'[Len(agents')].k = id
    /\ agents'[Len(agents')].v.id = id

Stored(id) == MapGet(agents', id)

(* C19 as the code has it: registerAgent always stores a new profile under
   a fresh id, with reputation 0, tasksCompleted 0 and successRate 100
   whatever reputation, tasksCompleted and successRate the caller supplied;
   it is registerExternalAgent that stores the caller's three values. *)
C19_RegisterAgentForcesDefaults ==
    [][ /\ \A p \in SuppliedProfiles :
              RegisterAgent(p) =>
                  /\ RegisteredFresh(generateAgentId("agent"))
                  /\ Stored(generateAgentId("agent")).name = p.name
                  /\ Stored(generateAgentId("agent")).reputation = 0
                  /\ Stored(generateAgentId("agent")).tasksCompleted = 0
                  /\ Stored(generateAgentId("agent")).successRate
                         = Rat(DefaultSuccessRate, 1)
        /\ \A p \in ExternalProfiles :
              RegisterExternalAgent(p) =>
                  /\ RegisteredFresh(generateAgentId("agent"))
                  /\ Stored(generateAgentId("agent")).reputation = p.reputation
                  /\ Stored(generateAgentId("agent")).tasksCompleted
                         = p.tasksCompleted
                  /\ Stored(generateAgentId("agent")).successRate
                         = p.successRate ]_vars

(* C19 as stated: a reputation, tasksCompleted or successRate the caller of
   registerAgent supplied is the value stored in the new profile. *)
C19_SuppliedValuesStored ==
    [][ \A p \in SuppliedProfiles :
            RegisterAgent(p) =>
                /\ Stored(generateAgentId("agent")).reputation = p.reputation
                /\ Stored(generateAgentId("agent")).tasksCompleted
                       = p.tasksCompleted
                /\ Stored(generateAgentId("agent")).successRate
                       = p.successRate ]_vars

(* Both entry points have acted: a profile handed to registerAgent, none of
   which has reputation 0 with no task, stands at 0 / 0 / 100, next to one
   handed to registerExternalAgent that kept 99 / 1 / 97.4. *)
C19_DefaultsOverSupplied ==
    \E i, j \in 1..Len(agents) :
        /\ Agent(i).name = "Supplied"
        /\ Agent(i).reputation = 0
        /\ Agent(i).tasksCompleted = 0
        /\ Agent(i).successRate = Rat(DefaultSuccessRate, 1)
        /\ Agent(j).name = "Seeded"
        /\ Agent(j).reputation = 99
        /\ Agent(j).tasksCompleted = 1
        /\ Agent(j).successRate = Rat(974, 10)

---------------------------------------------------------------------------
(* Properties of the registry's lookups *)

UnknownId == <<"unknown", 0>>

(* C20: updateReputation with an unknown agent id and updateTaskStatus with
   an unknown task id leave every agent, skill and task unchanged; a
   terminal updateTaskStatus on a task whose agentId or skillId does not
   resolve still updates the task and the entity that does resolve, and
   leaves the map of the missing one unchanged. *)
C20_UnknownIdsAreNoOps ==
    [][ /\ \A b \in BOOLEAN :
              UpdateReputation(UnknownId, b) =>
                  UNCHANGED <<agents, skills, tasks>>
        /\ \A st \in TaskStatuses, o \in OutcomeInputs :
              UpdateTaskStatus(UnknownId, st, o[1], o[2]) =>
                  UNCHANGED <<agents, skills, tasks>>
        /\ \A t \in MapKeys(tasks), st \in Terminal, o \in OutcomeInputs :
              UpdateTaskStatus(t, st, o[1], o[2]) =>
                  /\ MapKeys(agents') = MapKeys(agents)
                  /\ MapKeys(skills') = MapKeys(skills)
                  /\ MapKeys(tasks') = MapKeys(tasks)
                  /\ MapGet(tasks', t).status = st
                  /\ IF MapHas(agents, MapGet(tasks, t).agentId)
                     THEN MapGet(agents', MapGet(tasks, t).agentId).tasksCompleted
                            = MapGet(agents, MapGet(tasks, t).agentId).tasksCompleted + 1
                     ELSE agents' = agents
                  /\ IF MapHas(skills, MapGet(tasks, t).skillId)
                     THEN MapGet(skills', MapGet(tasks, t).skillId).usageCount
                            = MapGet(skills, MapGet(tasks, t).skillId).usageCount + 1
                     ELSE skills' = skills ]_vars

(* A task of an agent that is not in the store has been completed: its skill
   is counted once, and the one agent in the store is as it was registered. *)
C20_MissingAgentSkipped ==
    /\ Len(agents) = 1
    /\ Agent(1).tasksCompleted = 0
    /\ Agent(1).reputation = 0
    /\ Len(skills) = 1
    /\ Skill(1).usageCount = 1
    /\ Len(tasks) = 1
    /\ Task(1).status = "completed"
    /\ Task(1).agentId = UnknownId
    /\ Task(1).skillId = Skill(1).id

---------------------------------------------------------------------------
(* Properties of the score functions *)

(* C21: computeGitHubScore returns a value within 0..8 for every star
   count, 30-day commit count and number of days since the last push. *)
C21_GitHubScoreRange ==
    (scored.input.kind = "stats" /\ scored.score.kind = "number")
        => scored.score.n \in 0..8

(* C22: computeDexScore returns a value within -2..2 for every 24h volume
   and 24h price change. *)
C22_DexScoreRange ==
    (scored.input.kind = "token" /\ scored.score.kind = "number")
        => scored.score.n \in (-2)..2

---------------------------------------------------------------------------
(* Properties of retryWithBackoff *)

RetryEnded == retry.pc \in {"returned", "thrown"}

(* The delays before the attempts made so far: baseDelay * 2^attempt after
   the failed attempt number attempt, counted from 0 *)
DelaysDoubling ==
    \A i \in 1..Len(retry.waits) :
        retry.waits[i] = retry.baseDelay * Pow2(i - 1)

(* What retryWithBackoff does whatever fn rejects with: at most maxRetries
   invocations; a delay of baseDelay * 2^attempt between two attempts and
   none after the last; the first value fn returns is returned and fn is not
   invoked again; and the call comes to an end. *)
RetryBounded ==
    /\ [](retry.invoked <= retry.maxRetries)
    /\ [](DelaysDoubling)
    /\ [](retry.pc \in {"calling", "returned", "thrown"} /\ retry.invoked > 0
            => Len(retry.waits) = retry.invoked - 1)
    /\ [](retry.pc = "waiting" =>
            Len(retry.waits) = retry.invoked
                /\ retry.invoked < retry.maxRetries)
    /\ [](retry.pc = "thrown" => retry.invoked = retry.maxRetries)
    /\ [][\A o \in FnOutcomes :
            (FnReturns(o) /\ o.kind = "value") =>
                retry'.pc = "returned" /\ retry'.outcome = o
                    /\ retry'.invoked = retry.invoked]_vars
    /\ [][RetryEnded => retry' = retry]_vars
    /\ <>RetryEnded

(* C27 as the code has it: retryWithBackoff invokes fn at most maxRetries
   times, returns the first value fn returns without invoking fn again,
   waits baseDelay * 2^attempt between attempts and not after the last, and
   ends when fn does; when all maxRetries invocations fail it throws the
   error of the last invocation if that error is a truthy value, and a new
   Error of its own if fn rejected with a falsy value. *)
C27_RetryThrowsLastTruthyError ==
    /\ RetryBounded
    /\ [][\A o \in FnOutcomes :
            (FnReturns(o) /\ retry'.pc = "thrown") =>
                retry'.outcome =
                    Rejected(IF Truthy(o.v) THEN o.v ELSE Exhausted)]_vars

(* C27 as stated: when all maxRetries invocations fail, what is thrown is
   the error of the last invocation. *)
C27_RetryThrowsLastError ==
    [][\A o \in FnOutcomes :
          (FnReturns(o) /\ retry'.pc = "thrown") =>
              retry'.outcome = Rejected(o.v)]_vars

(* Three attempts have failed, with the delays 1000 and 2000 between them
   and none after the third, and the error of the third is thrown *)
C27_ThreeAttemptsFailed ==
    /\ retry.pc = "thrown"
    /\ retry.maxRetries = 3
    /\ retry.invoked = 3
    /\ retry.waits = <<1000, 2000>>
    /\ retry.outcome = Rejected("Error: 500")

====
